---------------------------- MODULE Spec2Model ----------------------------
(***************************************************************************)
(* A model of the cron runner (cron.go: Cron, Entry, byTime, the run loop  *)
(* and the caller-side API) and of the astronomical schedule               *)
(* (sunschedule.go: SunSchedule).                                          *)
(*                                                                         *)
(* Time is an integer number of seconds on a miniature civil calendar:     *)
(* SecPerMin seconds a minute, MinPerHour minutes an hour, HourPerDay      *)
(* hours a day, DaysPerWeek days a week and a year of the months listed in *)
(* MonthLens.  The instant 0 is the zero time (time.Time{}).               *)
(***************************************************************************)
EXTENDS Integers, Sequences, FiniteSets, TLC

VARIABLES
    clock,      \* the wall clock, what time.Now().Local() returns
    entries,    \* Cron.entries: the sequence of Entry objects
    running,    \* Cron.running
    count,      \* Cron.count
    nref,       \* how many Entry objects Schedule has allocated
    loopPc,     \* where Cron.run stands: idle, start, select, reply, done
    now,        \* the local variable now of Cron.run
    effective,  \* the local variable effective of Cron.run
    timerAt,    \* the instant the select's time.After channel becomes ready
    snapOut,    \* the snapshot Cron.run is sending on Cron.snapshot
    cancelled,  \* whether ctx.Done() is closed
    cs,         \* the caller goroutines: position and locals of each
    got,        \* what the last Entries() call of each caller returned
    last,       \* the latest timer expiry handled: its serial number, its
                \* instant and the jobs it started
    gone,       \* the Entry objects named by a remove command the loop took,
                \* each with the next-run instant it had then
    asked,      \* the Entry objects RemoveJob was called for before their
                \* next-run instant, each with that instant
    early,      \* the Entry objects RemoveJob was called for before Start
    jobs,       \* how many started jobs have not returned from Run
    left,       \* how many more API calls of each kind the callers make
    sun,        \* the SunSchedule under test (state, fields)
    sunT,       \* the reference instant handed to SunSchedule.Next
    sunRes,     \* what the last call of SunSchedule.Next returned
    sunCalls    \* how many calls of SunSchedule.Next were made

sunVars == <<sun, sunT, sunRes, sunCalls>>

cronVars == <<entries, running, count, nref>>
loopVars == <<loopPc, now, effective, timerAt, snapOut>>
callVars == <<cs, got, left>>
histVars == <<last, gone, asked, early>>
runVars == <<cronVars, loopVars, callVars, cancelled, histVars, jobs>>

vars == <<clock, runVars, sunVars>>

---------------------------------------------------------------------------
(* The miniature calendar *)

SecPerMin == 2
MinPerHour == 2
HourPerDay == 2
DaysPerWeek == 3
\* the lengths of the months of a year: the second month is shorter, as
\* February is
MonthLens == <<3, 2>>

HourLen == SecPerMin * MinPerHour
DayLen == HourLen * HourPerDay

RECURSIVE SumTo(_, _)
SumTo(s, n) == IF n = 0 THEN 0 ELSE s[n] + SumTo(s, n - 1)

DaysPerYear == SumTo(MonthLens, Len(MonthLens))

SecondOf(t) == t % SecPerMin
MinuteOf(t) == (t \div SecPerMin) % MinPerHour
HourOf(t) == (t \div HourLen) % HourPerDay
DayOf(t) == t \div DayLen
DowOf(t) == DayOf(t) % DaysPerWeek
YearDayOf(t) == DayOf(t) % DaysPerYear
\* the month (1-based) holding day-of-year yd (0-based)
MonthOfYearDay(yd) ==
    CHOOSE m \in 1..Len(MonthLens) :
        SumTo(MonthLens, m - 1) <= yd /\ yd < SumTo(MonthLens, m)
MonthOf(t) == MonthOfYearDay(YearDayOf(t))
DomOf(t) == YearDayOf(t) - SumTo(MonthLens, MonthOf(t) - 1) + 1

Min(S) == CHOOSE x \in S : \A y \in S : x <= y
Max(S) == CHOOSE x \in S : \A y \in S : y <= x

---------------------------------------------------------------------------
(* SpecSchedule: six bit-mask fields.  A field is its set of admitted      *)
(* values and the star flag a wildcard sets.                               *)

Star(domain) == [star |-> TRUE, bits |-> domain]
Only(vals) == [star |-> FALSE, bits |-> vals]

seconds == 0..(SecPerMin - 1)
minutes == 0..(MinPerHour - 1)
hours == 0..(HourPerDay - 1)
dom == 1..Max({MonthLens[m] : m \in 1..Len(MonthLens)})
months == 1..Len(MonthLens)
dow == 0..(DaysPerWeek - 1)

\* the day-of-month / day-of-week rule: when both are restricted either
\* may match, otherwise both must
dayMatches(s, t) ==
    LET domMatch == DomOf(t) \in s.Dom.bits
        dowMatch == DowOf(t) \in s.Dow.bits
    IN  IF s.Dom.star \/ s.Dow.star
        THEN domMatch /\ dowMatch
        ELSE domMatch \/ dowMatch

SpecMatches(s, t) ==
    /\ MonthOf(t) \in s.Month.bits
    /\ dayMatches(s, t)
    /\ HourOf(t) \in s.Hour.bits
    /\ MinuteOf(t) \in s.Minute.bits
    /\ SecondOf(t) \in s.Second.bits

\* the search gives up five years past t
YearLimit == 5
Horizon == YearLimit * DaysPerYear * DayLen

\* the first instant of the day, hour, minute after the one holding w
NextDayStart(w) == (DayOf(w) + 1) * DayLen
NextHourStart(w) == ((w \div HourLen) + 1) * HourLen
NextMinuteStart(w) == ((w \div SecPerMin) + 1) * SecPerMin
\* the first instant of the month after the one holding w
NextMonthStart(w) ==
    (DayOf(w) - (DomOf(w) - 1) + MonthLens[MonthOf(w)]) * DayLen

\* one step of the field-major search with carry: the start of the next
\* unit of the first field that rejects the working instant w, or w itself
\* when every field admits it
SpecAdvance(s, w) ==
    IF MonthOf(w) \notin s.Month.bits THEN NextMonthStart(w)
    ELSE IF ~dayMatches(s, w) THEN NextDayStart(w)
    ELSE IF HourOf(w) \notin s.Hour.bits THEN NextHourStart(w)
    ELSE IF MinuteOf(w) \notin s.Minute.bits THEN NextMinuteStart(w)
    ELSE IF SecondOf(w) \notin s.Second.bits THEN w + 1
    ELSE w

\* the search: advance and start over, give up past the limit
SpecSearch(s, start, limit) ==
    LET go[w \in start..(limit + 1)] ==
            IF w > limit THEN 0
            ELSE IF SpecAdvance(s, w) = w THEN w
            ELSE go[Min({SpecAdvance(s, w), limit + 1})]
    IN  go[start]

\* SpecSchedule.Next: the earliest instant strictly after t that all six
\* fields admit, the zero time when there is none within the horizon
SpecScheduleNext(s, t) == SpecSearch(s, t + 1, t + Horizon)

---------------------------------------------------------------------------
(* astrotime: the instant of each event on a day, and the Next* functions  *)
(* that return the first event at or after an instant.                     *)

SunKinds == {"sunset", "sunrise", "dusk", "dawn"}

\* the event's offset into day d; it moves with the day, as the real one
\* does with the season, and lies after the first second of the day
SunOffset(kind, d) ==
    LET p == d % 2
    IN  CASE kind = "dawn" -> 2 + p
          [] kind = "sunrise" -> 3 + p
          [] kind = "sunset" -> 5 + p
          [] kind = "dusk" -> 6 + p

CalcSun(kind, d) == d * DayLen + SunOffset(kind, d)

NextSun(kind, t) ==
    IF CalcSun(kind, DayOf(t)) >= t
    THEN CalcSun(kind, DayOf(t))
    ELSE CalcSun(kind, DayOf(t) + 1)

---------------------------------------------------------------------------
(* SunSchedule (sunschedule.go) *)

\* sunschedule.go 42-49: the day selector built from the three fields
SunDaySchedule(s) ==
    [Second |-> Only({1}), Minute |-> Star(minutes), Hour |-> Star(hours),
     Dom |-> s.fields[1], Month |-> s.fields[2], Dow |-> s.fields[3]]

\* sunschedule.go 52-53: now.Truncate(time.Hour).Add(-now.Hour() hours)
StartOfToday(wall) == (wall - (wall % HourLen)) - HourOf(wall) * HourLen

\* SunSchedule.next: the first instant of the selector after the start of
\* today
SunBase(s, wall) == SpecScheduleNext(SunDaySchedule(s), StartOfToday(wall))

\* SunSchedule.getSun
getSun(s, basetime) ==
    IF s.state \in SunKinds THEN NextSun(s.state, basetime) ELSE 0

\* SunSchedule.Next(t): t is not read; the base day is moved on by 24 hours
\* when its event lies before time.Now()
SunScheduleNext(s, t, wall) ==
    LET basetime == SunBase(s, wall)
    IN  IF getSun(s, basetime) < wall
        THEN getSun(s, basetime + DayLen)
        ELSE getSun(s, basetime)

---------------------------------------------------------------------------
(* The schedules the runner is given, behind the Schedule interface *)

ScheduleNames == {"everySecond", "everyMinute", "never"}

\* the SpecSchedule each descriptor stands for; "never" asks for a day the
\* second month does not have
SpecOf(name) ==
    LET all == [Second |-> Star(seconds), Minute |-> Star(minutes),
                Hour |-> Star(hours), Dom |-> Star(dom),
                Month |-> Star(months), Dow |-> Star(dow)]
    IN  CASE name = "everySecond" -> all
          [] name = "everyMinute" -> [all EXCEPT !.Second = Only({0})]
          [] name = "never" ->
                [all EXCEPT !.Dom = Only({MonthLens[2] + 1}),
                            !.Month = Only({2})]

\* Schedule.Next(t)
ScheduleNext(sch, t) == SpecScheduleNext(SpecOf(sch), t)

---------------------------------------------------------------------------
(* Entry, byTime and the helpers of Cron *)

\* &Entry{Schedule, Job, ID, Status: 0}; ref is the address of the object
NewEntry(sch, id, ref) ==
    [ref |-> ref, ID |-> id, Schedule |-> sch, Next |-> 0, Prev |-> 0,
     Status |-> 0]

\* a Less without the zero-time cases: the zero time sorts first
byTimeLessPlain(a, b) == a.Next < b.Next

\* byTime.Less: the zero time sorts after every other
byTimeLess(a, b) ==
    IF a.Next = 0 THEN FALSE
    ELSE IF b.Next = 0 THEN TRUE
    ELSE a.Next < b.Next

IsSortedByTime(es) ==
    \A i, j \in 1..Len(es) : i < j => ~byTimeLess(es[j], es[i])

\* a loop that does not sort
SortSkipped(es) == {es}

\* sort.Sort(byTime(c.entries)): some ordering of the same objects that
\* byTime.Less accepts (the sort is not stable)
SortByTime(es) ==
    {t \in {[i \in 1..Len(es) |-> es[p[i]]] : p \in Permutations(1..Len(es))} :
        IsSortedByTime(t)}

\* a removeJob with the test inverted: it keeps the entries it should drop
removeJobInverted(es, id) == SelectSeq(es, LAMBDA x : x.ID = id)

\* a removeJob that stops at the first match
removeJobFirst(es, id) ==
    LET hit == {i \in 1..Len(es) : es[i].ID = id}
    IN  IF hit = {} THEN es
        ELSE [k \in 1..(Len(es) - 1) |->
                IF k < Min(hit) THEN es[k] ELSE es[k + 1]]

\* Cron.removeJob
removeJob(es, id) == SelectSeq(es, LAMBDA x : x.ID # id)

\* the Entry object entrySnapshot allocates for e: the same fields in a new
\* object, which no one else holds (ref 0)
EntryCopy(e) == [e EXCEPT !.ref = 0]

\* Cron.entrySnapshot
entrySnapshot(es) == [i \in 1..Len(es) |-> EntryCopy(es[i])]

\* now.AddDate(10, 0, 0)
TenYears == 10 * DaysPerYear * DayLen

\* lines 219-226: the instant the loop waits for
Effective(es, n) ==
    IF Len(es) = 0 \/ es[1].Next = 0 THEN n + TenYears ELSE es[1].Next

\* a firing loop that stops after the first entry
FireCountFirst(es, eff) ==
    IF Len(es) > 0 /\ es[1].Next = eff THEN 1 ELSE 0

\* lines 231-240: how many leading entries the loop fires before it breaks
FireCount(es, eff) ==
    Max({k \in 0..Len(es) : \A i \in 1..k : es[i].Next = eff})

\* lines 238-239: the entries after the firing
Fired(es, eff) ==
    [i \in 1..Len(es) |->
        IF i <= FireCount(es, eff)
        THEN [es[i] EXCEPT !.Prev = es[i].Next,
                           !.Next = ScheduleNext(es[i].Schedule, eff)]
        ELSE es[i]]

\* a firing loop that does not look at Status
StartedAll(es, eff) ==
    LET due == SubSeq(es, 1, FireCount(es, eff))
    IN  [i \in 1..Len(due) |-> [ref |-> due[i].ref, ID |-> due[i].ID]]

\* lines 235-237: the jobs started, in the order of the collection
Started(es, eff) ==
    LET due == SelectSeq(SubSeq(es, 1, FireCount(es, eff)),
                         LAMBDA e : e.Status = 0)
    IN  [i \in 1..Len(due) |-> [ref |-> due[i].ref, ID |-> due[i].ID]]

\* the first entry with this ID gets the status (PauseFunc, ResumeFunc)
SetStatus(es, id, st) ==
    LET hit == {i \in 1..Len(es) : es[i].ID = id}
    IN  IF hit = {} THEN es
        ELSE [es EXCEPT ![Min(hit)] = [@ EXCEPT !.Status = st]]

---------------------------------------------------------------------------
(* The runner: Cron.run and the API calls of the caller goroutines *)

Callers == {"a", "b"}

MaxClock == 4
MaxAdds == 2
MaxRemoves == 1
MaxSnaps == 2
MaxPauses == 1
MaxScans == 2

\* the identifiers callers name in RemoveJob, PauseFunc and ResumeFunc
IDs == 1..MaxAdds

\* the one-second wait of RemoveJob and RemoveAll
RemoveWait == 1

Idle ==
    [pc |-> "idle", id |-> 0, sched |-> "none", ref |-> 0, since |-> 0,
     op |-> "none", at |-> 0, ret |-> 0]
\* what a caller of Entries holds: the slice it got, and the collection as
\* it was when that slice was made
NoResult == [have |-> FALSE, nil |-> FALSE, items |-> <<>>, live |-> <<>>]
\* the slice the loop is sending on c.snapshot, and the collection as it was
\* when the loop made it
NoSnapshot == [items |-> <<>>, live |-> <<>>]
NoFiring == [n |-> 0, at |-> 0, runs |-> <<>>]
Budget ==
    [add |-> MaxAdds, remove |-> MaxRemoves, snap |-> 0, pause |-> MaxPauses]

\* the state New() returns, before any call
RunnerInit ==
    /\ entries = <<>>
    /\ running = FALSE
    /\ count = 0
    /\ nref = 0
    /\ loopPc = "idle"
    /\ now = 0
    /\ effective = 0
    /\ timerAt = 0
    /\ snapOut = NoSnapshot
    /\ cancelled = FALSE
    /\ cs = [p \in Callers |-> Idle]
    /\ got = [p \in Callers |-> NoResult]
    /\ last = NoFiring
    /\ gone = {}
    /\ asked = {}
    /\ early = {}
    /\ jobs = 0

Init ==
    /\ clock = 1
    /\ RunnerInit
    /\ left = Budget
    /\ sun = [state |-> "sunrise",
              fields |-> <<Star(dom), Star(months), Star(dow)>>]
    /\ sunT = 0
    /\ sunRes = 0
    /\ sunCalls = 0

\* lines 216-229: sort, pick the instant to wait for, and enter the select
\* with now = n; time.After is started at the present wall clock
EnterSelect(es, n) ==
    /\ entries' \in SortByTime(es)
    /\ now' = n
    /\ effective' = Effective(entries', n)
    /\ timerAt' = clock + (IF effective' > n THEN effective' - n ELSE 0)
    /\ loopPc' = "select"

\* the objects of es a command names, with their next-run instants
Named(es, ids) ==
    {[ref |-> es[i].ref, Next |-> es[i].Next] :
        i \in {j \in 1..Len(es) : es[j].ID \in ids}}

AllIDs(es) == {es[i].ID : i \in 1..Len(es)}

GoneRefs(g) == {x.ref : x \in g}

\* time passes
Tick ==
    /\ clock < MaxClock
    /\ clock' = clock + 1
    /\ UNCHANGED <<runVars, sunVars>>

\* Cron.Start
Start ==
    /\ loopPc = "idle"
    /\ running' = TRUE
    /\ loopPc' = "start"
    /\ UNCHANGED <<clock, entries, count, nref, now, effective, timerAt,
                   snapOut, cancelled, callVars, histVars, jobs, sunVars>>

\* the owner of ctx cancels it
Cancel ==
    /\ ~cancelled
    /\ cancelled' = TRUE
    /\ UNCHANGED <<clock, cronVars, loopVars, callVars, histVars, jobs,
                   sunVars>>

\* lines 209-213: the first activation time of each entry
LoopInit ==
    /\ loopPc = "start"
    /\ EnterSelect([i \in 1..Len(entries) |->
                       [entries[i] EXCEPT
                           !.Next = ScheduleNext(entries[i].Schedule, clock)]],
                   clock)
    /\ UNCHANGED <<clock, running, count, nref, snapOut, cancelled, callVars,
                   histVars, jobs, sunVars>>

\* a timer case that calls Run without "go": while a job has not returned
\* the loop cannot go on
TimerFireAwaits ==
    /\ jobs = 0
    /\ loopPc = "select"
    /\ clock >= timerAt
    /\ EnterSelect(Fired(entries, effective), clock)
    /\ last' = [n |-> last.n + 1, at |-> effective,
                runs |-> Started(entries, effective)]
    /\ jobs' = jobs + Len(Started(entries, effective))
    /\ UNCHANGED <<clock, running, count, nref, snapOut, cancelled, callVars,
                   gone, asked, early, sunVars>>

\* lines 229-241: the timer case; now becomes the instant the timer sent
TimerFire ==
    /\ loopPc = "select"
    /\ clock >= timerAt
    /\ EnterSelect(Fired(entries, effective), clock)
    /\ last' = [n |-> last.n + 1, at |-> effective,
                runs |-> Started(entries, effective)]
    /\ jobs' = jobs + Len(Started(entries, effective))
    /\ UNCHANGED <<clock, running, count, nref, snapOut, cancelled, callVars,
                   gone, asked, early, sunVars>>

\* a started job returns from Run
JobReturn ==
    /\ jobs > 0
    /\ jobs' = jobs - 1
    /\ UNCHANGED <<clock, cronVars, loopVars, callVars, cancelled, histVars,
                   sunVars>>

\* a ctx.Done() case that leaves the select but not the loop ("break" for
\* "return")
CtxDoneBreaks ==
    /\ loopPc = "select"
    /\ cancelled
    /\ EnterSelect(entries, clock)
    /\ UNCHANGED <<clock, running, count, nref, snapOut, cancelled, callVars,
                   histVars, jobs, sunVars>>

\* lines 254-255: the ctx.Done() case
CtxDone ==
    /\ loopPc = "select"
    /\ cancelled
    /\ loopPc' = "done"
    /\ UNCHANGED <<clock, cronVars, now, effective, timerAt, snapOut,
                   cancelled, callVars, histVars, jobs, sunVars>>

\* AddJob, lines 164-168: parse the descriptor, atomic.AddInt64
AddJob(p) ==
    /\ cs[p].pc = "idle"
    /\ left.add > 0
    /\ \E sch \in ScheduleNames :
        cs' = [cs EXCEPT ![p] = [Idle EXCEPT !.pc = "load", !.sched = sch]]
    /\ count' = count + 1
    /\ left' = [left EXCEPT !.add = @ - 1]
    /\ UNCHANGED <<clock, entries, running, nref, loopVars, cancelled, got,
                   histVars, jobs, sunVars>>

\* AddJob, line 169: atomic.LoadInt64
AddJobLoad(p) ==
    /\ cs[p].pc = "load"
    /\ cs' = [cs EXCEPT ![p] = [@ EXCEPT !.pc = "schedule", !.id = count]]
    /\ UNCHANGED <<clock, cronVars, loopVars, cancelled, got, left, histVars,
                   jobs, sunVars>>

\* Schedule, lines 176-186: allocate the entry; append it when the runner
\* is not running, else go on to send it
ScheduleEnter(p) ==
    /\ cs[p].pc = "schedule"
    /\ nref' = nref + 1
    /\ IF ~running
       THEN /\ entries' = Append(entries,
                                 NewEntry(cs[p].sched, cs[p].id, nref + 1))
            /\ cs' = [cs EXCEPT ![p] = Idle]
       ELSE /\ entries' = entries
            /\ cs' = [cs EXCEPT ![p] = [@ EXCEPT !.pc = "add",
                                                 !.ref = nref + 1]]
    /\ UNCHANGED <<clock, running, count, loopVars, cancelled, got, left,
                   histVars, jobs, sunVars>>

\* line 187 with lines 243-245 and 259: the loop takes the entry
RecvAdd(p) ==
    /\ loopPc = "select"
    /\ cs[p].pc = "add"
    /\ EnterSelect(Append(entries,
                          [NewEntry(cs[p].sched, cs[p].id, cs[p].ref) EXCEPT
                              !.Next = ScheduleNext(cs[p].sched, now)]),
                   clock)
    /\ cs' = [cs EXCEPT ![p] = Idle]
    /\ UNCHANGED <<clock, running, count, nref, snapOut, cancelled, got, left,
                   histVars, jobs, sunVars>>

\* a RemoveJob that, like RemoveAll, edits the collection itself when the
\* runner is not running
RemoveJobDirect(p) ==
    /\ cs[p].pc = "idle"
    /\ left.remove > 0
    /\ left' = [left EXCEPT !.remove = @ - 1]
    /\ \E id \in IDs :
        IF ~running
        THEN /\ entries' = removeJob(entries, id)
             /\ early' = early \cup GoneRefs(Named(entries, {id}))
             /\ cs' = cs
        ELSE /\ entries' = entries
             /\ early' = early
             /\ cs' = [cs EXCEPT ![p] = [Idle EXCEPT !.pc = "remove",
                                                     !.id = id,
                                                     !.since = clock]]
    /\ UNCHANGED <<clock, running, count, nref, loopVars, cancelled, got,
                   asked, last, gone, jobs, sunVars>>

\* RemoveJob, lines 100-104
RemoveJob(p) ==
    /\ cs[p].pc = "idle"
    /\ left.remove > 0
    /\ left' = [left EXCEPT !.remove = @ - 1]
    /\ IF ~running
       THEN \E id \in IDs :
            /\ cs' = cs
            /\ asked' = asked
            /\ early' = early \cup GoneRefs(Named(entries, {id}))
       ELSE \E id \in IDs :
            /\ cs' = [cs EXCEPT ![p] = [Idle EXCEPT !.pc = "remove",
                                                    !.id = id,
                                                    !.since = clock]]
            /\ early' = early
            /\ asked' = asked \cup
                    {a \in Named(entries, {id}) :
                        /\ a.Next > clock
                        /\ \E j \in 1..Len(entries) :
                              /\ entries[j].ref # a.ref
                              /\ entries[j].Next = a.Next}
    /\ UNCHANGED <<clock, cronVars, loopVars, cancelled, got, last, gone,
                   jobs, sunVars>>

\* line 105 with lines 247-248 and 259: the loop takes the identifier
RecvRemove(p) ==
    /\ loopPc = "select"
    /\ cs[p].pc = "remove"
    /\ EnterSelect(removeJob(entries, cs[p].id), clock)
    /\ gone' = gone \cup Named(entries, {cs[p].id})
    /\ cs' = [cs EXCEPT ![p] = Idle]
    /\ UNCHANGED <<clock, running, count, nref, snapOut, cancelled, got, left,
                   last, asked, early, jobs, sunVars>>

\* RemoveAll, lines 111-117
RemoveAll(p) ==
    /\ cs[p].pc = "idle"
    /\ left.remove > 0
    /\ left' = [left EXCEPT !.remove = @ - 1]
    /\ IF ~running
       THEN /\ entries' = <<>>
            /\ gone' = gone \cup Named(entries, AllIDs(entries))
            /\ cs' = cs
       ELSE /\ entries' = entries
            /\ gone' = gone
            /\ cs' = [cs EXCEPT ![p] = [Idle EXCEPT !.pc = "removeAll",
                                                    !.since = clock]]
    /\ UNCHANGED <<clock, running, count, nref, loopVars, cancelled, got,
                   last, asked, early, jobs, sunVars>>

\* line 118 with lines 249-250 and 259
RecvRemoveAll(p) ==
    /\ loopPc = "select"
    /\ cs[p].pc = "removeAll"
    /\ EnterSelect(<<>>, clock)
    /\ gone' = gone \cup Named(entries, AllIDs(entries))
    /\ cs' = [cs EXCEPT ![p] = Idle]
    /\ UNCHANGED <<clock, running, count, nref, snapOut, cancelled, got, left,
                   last, asked, early, jobs, sunVars>>

\* lines 106 and 119: a second has passed and the loop has not taken the
\* command
GiveUp(p) ==
    /\ cs[p].pc \in {"remove", "removeAll"}
    /\ clock >= cs[p].since + RemoveWait
    /\ cs' = [cs EXCEPT ![p] = Idle]
    /\ UNCHANGED <<clock, cronVars, loopVars, cancelled, got, left, histVars,
                   jobs, sunVars>>

\* Entries, lines 191-197
Entries(p) ==
    /\ cs[p].pc = "idle"
    /\ left.snap > 0
    /\ left' = [left EXCEPT !.snap = @ - 1]
    /\ IF running
       THEN /\ cs' = [cs EXCEPT ![p] = [Idle EXCEPT !.pc = "snapSend"]]
            /\ got' = [got EXCEPT ![p] = NoResult]
       ELSE /\ cs' = cs
            /\ got' = [got EXCEPT ![p] =
                          [have |-> TRUE, nil |-> FALSE,
                           items |-> entrySnapshot(entries),
                           live |-> entries]]
    /\ UNCHANGED <<clock, cronVars, loopVars, cancelled, histVars, jobs,
                   sunVars>>

\* line 193 with lines 251-252: the loop takes the request and copies the
\* entries
RecvSnapshot(p) ==
    /\ loopPc = "select"
    /\ cs[p].pc = "snapSend"
    /\ snapOut' = [items |-> entrySnapshot(entries), live |-> entries]
    /\ loopPc' = "reply"
    /\ cs' = [cs EXCEPT ![p] = [@ EXCEPT !.pc = "snapRecv"]]
    /\ UNCHANGED <<clock, cronVars, now, effective, timerAt, cancelled, got,
                   left, histVars, jobs, sunVars>>

\* line 193 of one caller with line 194 of another: the nil request is
\* received by a caller waiting for its reply
PassNil(p, q) ==
    /\ p # q
    /\ cs[p].pc = "snapSend"
    /\ cs[q].pc = "snapRecv"
    /\ cs' = [cs EXCEPT ![p] = [@ EXCEPT !.pc = "snapRecv"], ![q] = Idle]
    /\ got' = [got EXCEPT ![q] = [have |-> TRUE, nil |-> TRUE,
                                  items |-> <<>>, live |-> entries]]
    /\ UNCHANGED <<clock, cronVars, loopVars, cancelled, left, histVars, jobs,
                   sunVars>>

\* line 252 with line 194, then line 259: a waiting caller receives the
\* snapshot
Reply(q) ==
    /\ loopPc = "reply"
    /\ cs[q].pc = "snapRecv"
    /\ got' = [got EXCEPT ![q] = [have |-> TRUE, nil |-> FALSE,
                                  items |-> snapOut.items,
                                  live |-> snapOut.live]]
    /\ cs' = [cs EXCEPT ![q] = Idle]
    /\ snapOut' = NoSnapshot
    /\ EnterSelect(entries, clock)
    /\ UNCHANGED <<clock, running, count, nref, cancelled, left, histVars,
                   jobs, sunVars>>

\* PauseFunc
PauseFunc(p) ==
    /\ cs[p].pc = "idle"
    /\ left.pause > 0
    /\ left' = [left EXCEPT !.pause = @ - 1]
    /\ \E id \in IDs : entries' = SetStatus(entries, id, 1)
    /\ UNCHANGED <<clock, running, count, nref, loopVars, cancelled, cs, got,
                   histVars, jobs, sunVars>>

\* ResumeFunc
ResumeFunc(p) ==
    /\ cs[p].pc = "idle"
    /\ left.pause > 0
    /\ left' = [left EXCEPT !.pause = @ - 1]
    /\ \E id \in IDs : entries' = SetStatus(entries, id, 0)
    /\ UNCHANGED <<clock, running, count, nref, loopVars, cancelled, cs, got,
                   histVars, jobs, sunVars>>

AddStep(p) == AddJob(p) \/ AddJobLoad(p) \/ ScheduleEnter(p) \/ RecvAdd(p)

RemoveStep(p) ==
    \/ RemoveJob(p) \/ RecvRemove(p)
    \/ RemoveAll(p) \/ RecvRemoveAll(p)
    \/ GiveUp(p)

SnapStep(p) ==
    \/ Entries(p) \/ RecvSnapshot(p) \/ Reply(p)
    \/ \E q \in Callers : PassNil(p, q)

PauseStep(p) == PauseFunc(p) \/ ResumeFunc(p)

\* the runner with callers that add, remove, pause and resume
Next ==
    \/ Tick \/ Start \/ LoopInit \/ TimerFire \/ JobReturn
    \/ \E p \in Callers : AddStep(p) \/ RemoveStep(p) \/ PauseStep(p)

Spec == Init /\ [][Next]_vars

\* the runner with a context that is cancelled, and callers that add,
\* remove and take snapshots
StopBudget == [add |-> 1, remove |-> 1, snap |-> MaxSnaps, pause |-> 0]

StopInit ==
    /\ clock = 1
    /\ RunnerInit
    /\ left = StopBudget
    /\ sun = [state |-> "sunrise",
              fields |-> <<Star(dom), Star(months), Star(dow)>>]
    /\ sunT = 0
    /\ sunRes = 0
    /\ sunCalls = 0

StopNext ==
    \/ Tick \/ Start \/ Cancel \/ LoopInit \/ TimerFire \/ CtxDone
    \/ JobReturn
    \/ \E p \in Callers : AddStep(p) \/ RemoveStep(p) \/ SnapStep(p)

StopSpec == StopInit /\ [][StopNext]_vars

\* the runner just started with one entry registered, a context that is
\* never cancelled, and callers that add, remove and take one snapshot
CmdBudget == [add |-> 1, remove |-> MaxRemoves, snap |-> 1, pause |-> 0]

CmdInit ==
    /\ clock = 1
    /\ entries = <<NewEntry("everySecond", 1, 1)>>
    /\ running = TRUE
    /\ count = 1
    /\ nref = 1
    /\ loopPc = "start"
    /\ now = 0
    /\ effective = 0
    /\ timerAt = 0
    /\ snapOut = NoSnapshot
    /\ cancelled = FALSE
    /\ cs = [p \in Callers |-> Idle]
    /\ got = [p \in Callers |-> NoResult]
    /\ last = NoFiring
    /\ gone = {}
    /\ asked = {}
    /\ early = {}
    /\ jobs = 0
    /\ left = CmdBudget
    /\ sun = [state |-> "sunrise",
              fields |-> <<Star(dom), Star(months), Star(dow)>>]
    /\ sunT = 0
    /\ sunRes = 0
    /\ sunCalls = 0

CmdNext ==
    \/ Tick \/ LoopInit \/ TimerFire \/ JobReturn
    \/ \E p \in Callers :
        \/ AddStep(p) \/ RemoveStep(p)
        \/ Entries(p) \/ RecvSnapshot(p) \/ Reply(p)

CmdSpec == CmdInit /\ [][CmdNext]_vars

\* the same with a scheduler that lets the loop goroutine run: it starts,
\* a caller who asked for a snapshot takes the reply, and a ready
\* ctx.Done() case is chosen in the end
FairSpec ==
    /\ StopSpec
    /\ WF_vars(LoopInit)
    /\ WF_vars(\E q \in Callers : Reply(q))
    /\ SF_vars(CtxDone)

---------------------------------------------------------------------------
(* PauseFunc, ResumeFunc and Status as the loops over c.entries they are,  *)
(* one element read at a time, beside a running control loop.              *)

ScanOps == {"pause", "resume", "status"}

\* lines 134-135, 143-144, 153-154: the call, before the first element
ScanCall(p) ==
    /\ cs[p].pc = "idle"
    /\ left.pause > 0
    /\ left' = [left EXCEPT !.pause = @ - 1]
    /\ \E o \in ScanOps, id \in IDs :
        cs' = [cs EXCEPT ![p] = [Idle EXCEPT !.pc = "scan", !.op = o,
                                            !.id = id, !.at = 1]]
    /\ UNCHANGED <<clock, cronVars, loopVars, cancelled, got, histVars,
                   jobs, sunVars>>

\* lines 135-139, 144-148, 154-159: one turn of the range loop; the return
\* value is the status found, -1 when the range is exhausted (Status), 0 for
\* the calls that return nothing
ScanStep(p) ==
    /\ cs[p].pc = "scan"
    /\ LET i == cs[p].at
           hit == i <= Len(entries) /\ entries[i].ID = cs[p].id
       IN  IF i > Len(entries)
           THEN /\ cs' = [cs EXCEPT ![p] = [@ EXCEPT !.pc = "ret",
                                                     !.ret = -1]]
                /\ entries' = entries
           ELSE IF ~hit
           THEN /\ cs' = [cs EXCEPT ![p] = [@ EXCEPT !.at = i + 1]]
                /\ entries' = entries
           ELSE IF cs[p].op = "status"
           THEN /\ cs' = [cs EXCEPT ![p] = [@ EXCEPT !.pc = "ret",
                                                     !.ret = entries[i].Status]]
                /\ entries' = entries
           ELSE /\ cs' = [cs EXCEPT ![p] = [@ EXCEPT !.pc = "ret", !.ret = 0]]
                /\ entries' = [entries EXCEPT ![i] =
                        [@ EXCEPT !.Status =
                            IF cs[p].op = "pause" THEN 1 ELSE 0]]
    /\ UNCHANGED <<clock, running, count, nref, loopVars, cancelled, got,
                   left, histVars, jobs, sunVars>>

\* the call returns to its caller
ScanReturn(p) ==
    /\ cs[p].pc = "ret"
    /\ cs' = [cs EXCEPT ![p] = Idle]
    /\ UNCHANGED <<clock, cronVars, loopVars, cancelled, got, left, histVars,
                   jobs, sunVars>>

\* the runner just started with two entries registered, of which the second
\* is due first, and callers that pause, resume and ask for the status
RaceBudget == [add |-> 0, remove |-> 0, snap |-> 0, pause |-> MaxScans]

RaceInit ==
    /\ clock = 2
    /\ entries = <<NewEntry("everyMinute", 1, 1), NewEntry("everySecond", 2, 2)>>
    /\ running = TRUE
    /\ count = 2
    /\ nref = 2
    /\ loopPc = "start"
    /\ now = 0
    /\ effective = 0
    /\ timerAt = 0
    /\ snapOut = NoSnapshot
    /\ cancelled = FALSE
    /\ cs = [p \in Callers |-> Idle]
    /\ got = [p \in Callers |-> NoResult]
    /\ last = NoFiring
    /\ gone = {}
    /\ asked = {}
    /\ early = {}
    /\ jobs = 0
    /\ left = RaceBudget
    /\ sun = [state |-> "sunrise",
              fields |-> <<Star(dom), Star(months), Star(dow)>>]
    /\ sunT = 0
    /\ sunRes = 0
    /\ sunCalls = 0

RaceNext ==
    \/ Tick \/ LoopInit \/ TimerFire \/ JobReturn
    \/ \E p \in Callers : ScanCall(p) \/ ScanStep(p) \/ ScanReturn(p)

RaceSpec == RaceInit /\ [][RaceNext]_vars

---------------------------------------------------------------------------
(* Calls of SunSchedule.Next at chosen reference instants, while the clock *)
(* runs.                                                                   *)

MaxSunClock == 20
MaxSunT == 24

SunFieldChoices ==
    {<<Star(dom), Star(months), Star(dow)>>,
     <<Star(dom), Star(months), Only({0})>>,
     <<Only({1}), Star(months), Star(dow)>>,
     <<Only({3}), Only({2}), Star(dow)>>,
     <<Only({1}), Star(months), Only({1})>>}

SunInit ==
    /\ clock \in 1..DayLen
    /\ sun \in [state : SunKinds, fields : SunFieldChoices]
    /\ sunT = 0
    /\ sunRes = 0
    /\ sunCalls = 0
    /\ RunnerInit
    /\ left = Budget

\* time passes
SunTick ==
    /\ clock < MaxSunClock
    /\ clock' = clock + 1
    /\ UNCHANGED <<sunVars, runVars>>

\* s.Next(t) for a chosen t
SunCall ==
    /\ sunCalls = 0
    /\ \E t \in 1..MaxSunT :
        /\ sunT' = t
        /\ sunRes' = SunScheduleNext(sun, t, clock)
    /\ sunCalls' = 1
    /\ UNCHANGED <<clock, sun, runVars>>

\* s.Next(t) with t the instant the previous call returned
SunCallAgain ==
    /\ sunCalls = 1
    /\ sunT' = sunRes
    /\ sunRes' = SunScheduleNext(sun, sunRes, clock)
    /\ sunCalls' = 2
    /\ UNCHANGED <<clock, sun, runVars>>

SunStep == SunTick \/ SunCall \/ SunCallAgain

SunSpec == SunInit /\ [][SunStep]_vars

---------------------------------------------------------------------------
(* Claims about SunSchedule.Next *)

\* the day of instant t passes the schedule's day-of-month, month and
\* day-of-week fields
SunDayAdmits(s, t) ==
    /\ MonthOf(t) \in s.fields[2].bits
    /\ dayMatches(SunDaySchedule(s), t)

\* C1: SunSchedule.Next(t) returns an instant strictly after t, for every
\* reference instant t and every event kind, also when t is the instant a
\* previous call returned.
C1_NextStrictlyAfter == sunCalls > 0 => sunRes > sunT

\* C2: the instant SunSchedule.Next returns lies on a day that the
\* schedule's day-of-month, month and day-of-week fields admit (whenever
\* the fields admit any day), also when the event of the first such day
\* has passed and the result is moved to a later day.
C2_NextOnAdmittedDay ==
    (sunCalls > 0 /\ SunBase(sun, clock) # 0) => SunDayAdmits(sun, sunRes)

---------------------------------------------------------------------------
(* Claims about the runner *)

LoopAlive == loopPc \in {"start", "select", "reply"}

\* C3: no API call blocks its caller forever: a command issued while the
\* control loop is not running (never started, or ended by cancellation),
\* or not taken within the bounded wait, returns to the caller.  A caller
\* waiting at a channel operation without a timeout (the send of Schedule,
\* the send and the receive of Entries) has a loop that can serve it.
C3_CallsReturn ==
    \A p \in Callers :
        cs[p].pc \in {"add", "snapSend", "snapRecv"} => LoopAlive

\* the objects whose jobs a firing started
RunRefs(f) == {f.runs[i].ref : i \in 1..Len(f.runs)}

\* the objects of es that are due at instant t
DueAt(es, t) == {i \in 1..Len(es) : es[i].Next = t}

\* C4, as first stated: an entry that shares its next-run instant with
\* another one, and for which RemoveJob was called before that instant, is
\* not dispatched at that instant nor later.
C4_CalledNeverDispatched ==
    \A a \in asked :
        a.ref \in RunRefs(last) => last.at < a.Next

\* C4, amended: once the loop has taken a RemoveJob command, no entry that
\* carried the identifier then is dispatched in any later firing; and every
\* firing dispatches, in one iteration, exactly the active entries of the
\* collection whose next-run instant is the instant fired - both of two
\* entries that share it when neither was removed, only the other one when
\* one was.
C4_RemovedNeverDispatched ==
    [][last'.n # last.n =>
          /\ RunRefs(last') \cap GoneRefs(gone) = {}
          /\ RunRefs(last') =
                {entries[i].ref :
                    i \in {j \in DueAt(entries, effective) :
                              entries[j].Status = 0}}]_vars

\* one of two entries due at the same instant was removed before it, and the
\* firing of that instant started the other one only
C4_Witness ==
    /\ last.n > 0
    /\ Len(last.runs) = 1
    /\ \E g \in gone : g.Next = last.at /\ g.ref \notin RunRefs(last)

\* C5: the identifiers AddJob gives out are pairwise distinct, so no two
\* entries of the collection share an ID, whatever the interleaving of
\* concurrent AddJob calls.
C5_DistinctIDs ==
    \A i, j \in 1..Len(entries) :
        i # j => entries[i].ID # entries[j].ID

\* C6: what Entries() returned has one record per entry of the collection as
\* it was when the slice was made, with that entry's ID, Next, Prev and
\* Status, and no record is an object of the collection.
C6_SnapshotOfLive ==
    \A p \in Callers :
        got[p].have =>
            /\ Len(got[p].items) = Len(got[p].live)
            /\ \A i \in 1..Len(got[p].items) :
                LET r == got[p].items[i]
                    e == got[p].live[i]
                IN  /\ r.ID = e.ID
                    /\ r.Next = e.Next
                    /\ r.Prev = e.Prev
                    /\ r.Status = e.Status
                    /\ r.ref \notin {got[p].live[j].ref :
                                        j \in 1..Len(got[p].live)}

\* the entries whose schedule has no activation time
Unscheduled(es) == {i \in 1..Len(es) : es[i].Schedule = "never"}

\* the non-zero next-run instants of the collection
Pending(es) == {es[i].Next : i \in 1..Len(es)} \ {0}

\* C7: an entry whose schedule returns the zero instant stays in the
\* collection, with a zero next-run instant, until a remove command names
\* it, and no firing dispatches it; and with such entries present the loop
\* still waits for the earliest non-zero next-run instant of the others
\* and takes the commands callers are sending.
C7_UnscheduledNeverFires ==
    /\ []((loopPc = "select" /\ Pending(entries) # {}) =>
              effective = Min(Pending(entries)))
    /\ []((loopPc = "select" /\ Unscheduled(entries) # {}) =>
              /\ clock >= timerAt => ENABLED TimerFire
              /\ \A p \in Callers :
                    /\ cs[p].pc = "add" => ENABLED RecvAdd(p)
                    /\ cs[p].pc = "remove" => ENABLED RecvRemove(p)
                    /\ cs[p].pc = "removeAll" => ENABLED RecvRemoveAll(p))
    /\ [][\A i \in Unscheduled(entries) :
            /\ entries[i].ref \notin RunRefs(last')
            /\ \/ \E j \in 1..Len(entries') :
                    /\ entries'[j].ref = entries[i].ref
                    /\ entries'[j].Next = 0
               \/ entries[i].ref \in GoneRefs(gone')]_vars

\* an unscheduled entry is in the collection, and another entry has fired
C7_Witness ==
    /\ loopPc = "select"
    /\ Unscheduled(entries) # {}
    /\ Len(last.runs) > 0
    /\ Pending(entries) # {}

\* C8: once the context is cancelled a started loop terminates, and after
\* that nothing is dispatched and the loop changes neither the collection
\* nor its own state.
C8_CancelStops ==
    /\ (cancelled /\ LoopAlive) ~> (loopPc = "done")
    /\ [][loopPc = "done" =>
            /\ loopPc' = "done"
            /\ last' = last
            /\ jobs' <= jobs
            /\ entries' = entries
            /\ <<now, effective, timerAt, snapOut>>' =
                    <<now, effective, timerAt, snapOut>>]_vars

\* the loop has fired, was cancelled and has ended with an entry due
C8_Witness ==
    /\ cancelled
    /\ loopPc = "done"
    /\ last.n > 0
    /\ \E i \in 1..Len(entries) :
        entries[i].Next # 0 /\ entries[i].Next <= clock

\* C9: with jobs that have not returned, the loop at its select still takes
\* the timer case when the timer has expired, and every command a caller
\* is sending.
C9_LoopNeverAwaitsJobs ==
    (jobs > 0 /\ loopPc = "select") =>
        /\ clock >= timerAt => ENABLED TimerFire
        /\ \A p \in Callers :
            /\ cs[p].pc = "add" => ENABLED RecvAdd(p)
            /\ cs[p].pc = "remove" => ENABLED RecvRemove(p)
            /\ cs[p].pc = "removeAll" => ENABLED RecvRemoveAll(p)
            /\ cs[p].pc = "snapSend" => ENABLED RecvSnapshot(p)

\* the latest firing started one job while a job of an earlier firing had
\* not returned
C9_Witness ==
    /\ last.n >= 2
    /\ Len(last.runs) = 1
    /\ jobs >= 2

\* C10: a firing handles every entry whose next-run instant is the instant
\* fired, in that one iteration and in the order of the collection; no
\* entry with an earlier non-zero next-run instant is left waiting; and the
\* instants fired never decrease.
C10_FiringOrder ==
    [][last'.n # last.n =>
          /\ \A i \in DueAt(entries, effective) :
                \E j \in 1..Len(entries') :
                    /\ entries'[j].ref = entries[i].ref
                    /\ entries'[j].Prev = effective
          /\ LET due == SelectSeq(entries,
                            LAMBDA e : e.Next = effective /\ e.Status = 0)
             IN  /\ Len(last'.runs) = Len(due)
                 /\ \A i \in 1..Len(due) : last'.runs[i].ref = due[i].ref
          /\ \A t \in Pending(entries) : t >= effective
          /\ last'.at = effective
          /\ last.n > 0 => last'.at >= last.at]_vars

\* two entries that shared an instant were started by one firing, after an
\* earlier firing
C10_Witness ==
    /\ last.n >= 2
    /\ Len(last.runs) = 2

\* C11: when PauseFunc(id) returns, an entry with that id has the status
\* paused if the collection has such an entry; likewise ResumeFunc and
\* active; and Status(id) returns -1 only when no entry of the collection
\* has that id.
C11_PauseResumeStatus ==
    [][\A p \in Callers :
        (cs[p].pc = "scan" /\ cs'[p].pc = "ret") =>
            LET with == {i \in 1..Len(entries') : entries'[i].ID = cs[p].id}
            IN  with # {} =>
                    CASE cs[p].op = "pause" ->
                            \E i \in with : entries'[i].Status = 1
                      [] cs[p].op = "resume" ->
                            \E i \in with : entries'[i].Status = 0
                      [] OTHER -> cs'[p].ret # -1]_vars

\* C17: while the runner is running no caller is inside a loop over
\* c.entries of its own.
C17_OnlyLoopTouchesEntries ==
    \A p \in Callers : cs[p].pc = "scan" => ~running

\* the entry of es that is the object r
ObjectOf(es, r) == es[CHOOSE i \in 1..Len(es) : es[i].ref = r]

C13_SortedAtSelect ==
    loopPc = "select" =>
        /\ \A i, j \in 1..Len(entries) :
            i < j =>
                /\ entries[i].Next = 0 => entries[j].Next = 0
                /\ entries[j].Next # 0 => entries[i].Next <= entries[j].Next
        /\ effective =
                IF entries = <<>> \/ entries[1].Next = 0
                THEN now + TenYears
                ELSE entries[1].Next

\* after a firing, an entry registered later stands before an unscheduled
\* one
C13_Witness ==
    /\ loopPc = "select"
    /\ last.n > 0
    /\ Len(entries) = 2
    /\ entries[1].Next # 0
    /\ entries[2].Next = 0
    /\ entries[1].ref > entries[2].ref

\* C14: taking a remove command for an identifier, removeJob yields the
\* entries with another ID, each unchanged and in the order they had, and
\* the collection afterwards consists of exactly these objects; a command
\* whose identifier no entry carries removes nothing.
C14_RemoveExactlyNamed ==
    [][\A p \in Callers :
        RecvRemove(p) =>
            LET keep == {i \in 1..Len(entries) : entries[i].ID # cs[p].id}
                r == removeJob(entries, cs[p].id)
            IN  /\ Len(r) = Cardinality(keep)
                /\ \A i \in keep :
                        r[Cardinality({j \in keep : j <= i})] = entries[i]
                /\ Len(entries') = Cardinality(keep)
                /\ {entries'[j] : j \in 1..Len(entries')} =
                        {entries[i] : i \in keep}
                /\ keep = 1..Len(entries) => r = entries]_vars

\* a remove command took an entry away and left one that had fired before
\* the removed one was due
C14_Witness ==
    \E g \in gone :
        \E i \in 1..Len(entries) :
            /\ entries[i].ref \notin GoneRefs(gone)
            /\ entries[i].Prev # 0
            /\ g.Next > entries[i].Prev

\* C15: the entry the loop takes from c.add gets the next-run instant
\* Schedule.Next(r) for r the time at which the loop takes it, so an instant
\* after that time (or none).
C15_AddedAfterNow ==
    [][\A p \in Callers :
        RecvAdd(p) =>
            LET e == ObjectOf(entries', cs[p].ref)
            IN  /\ e.Next = ScheduleNext(cs[p].sched, clock)
                /\ e.Next = 0 \/ e.Next > clock]_vars

\* C16: with the context cancelled, the loop at its select takes no timer
\* case and no command.
C16_CancelFirst ==
    [][(cancelled /\ loopPc = "select") =>
        ~(\/ TimerFire
          \/ \E p \in Callers :
                \/ RecvAdd(p) \/ RecvRemove(p) \/ RecvRemoveAll(p)
                \/ RecvSnapshot(p))]_vars

\* C18: the loop is never held at the send of a snapshot while an entry is
\* due or the context is cancelled.
C18_BlocksOnlyInSelect ==
    loopPc = "reply" => (~cancelled /\ clock < timerAt)

\* C19: no call of Entries() on a running runner returns the nil of another
\* caller while entries are registered.
C19_NoNilReturned ==
    \A p \in Callers :
        (got[p].have /\ got[p].nil) => got[p].live = <<>>

\* the objects of the collection
LiveRefs(es) == {es[i].ref : i \in 1..Len(es)}

===========================================================================
